---- MODULE Spec2Model ----
(***************************************************************************)
(* Model of Ollama_OpenAI_Assistant.py: the control thread (main loop,     *)
(* vosk_listen, handle_recognized_text, listen_for_command,                *)
(* respond_to_text, speak), the audio callback that feeds the global       *)
(* queue q, and the two ThreadPoolExecutor workers that run                *)
(* get_ollama_response and get_openai_response.                            *)
(*                                                                         *)
(* Recognized texts are sequences of one-character strings, so that        *)
(* str.lower() and the substring test `in` are computed, not assumed.      *)
(* A Python value that may be None is a sequence of length 0 (None) or 1.  *)
(***************************************************************************)
EXTENDS Naturals, Sequences, FiniteSets, TLC

VARIABLES
  pc,               \* position of the control thread
  vl_caller,        \* who called vosk_listen: "main" or "lfc"
  q,                \* the global audio frame queue
  stop_flag,        \* threading.Event stop_flag
  tts_active,       \* threading.Event tts_active
  recognized_text,  \* local of continuous_chat_with_vosk / argument of handle_recognized_text
  text,             \* local of listen_for_command
  command,          \* local of handle_recognized_text
  ollama_future,    \* future of executor.submit(get_ollama_response, text)
  openai_future,    \* future of executor.submit(get_openai_response, text)
  ollama_response,  \* local of respond_to_text
  openai_response,  \* local of respond_to_text
  speak_idx,        \* which speak() call of respond_to_text is running (1 or 2)
  spoken,           \* history: the speak() calls started in the current dispatch
  speakers,         \* history: number of speak() invocations in progress
  entries,          \* history: listen_for_command entries for the utterance being handled
  firstDone,        \* history: the backend call of the current dispatch that settled first
  stopSpokenIn,     \* history: control state in which the user first said a stop utterance
  crash,            \* why the process died: "none", "backend" or "engine"
  ollama_reply,     \* the HTTP response get_ollama_response received
  openai_reply,     \* the HTTP response get_openai_response received
  produced,         \* history: number of frames the callback has published
  lastFed,          \* history: sequence number of the last frame given to AcceptWaveform
  opened_at,        \* history: value of produced when the current input stream was opened
  dispatches        \* history: respond_to_text calls for the utterance being handled

vars == <<pc, vl_caller, q, stop_flag, tts_active, recognized_text, text, command,
          ollama_future, openai_future, ollama_response, openai_response, speak_idx,
          spoken, speakers, entries, firstDone, stopSpokenIn, crash,
          ollama_reply, openai_reply, produced, lastFed, opened_at, dispatches>>

(***************************************************************************)
(* Bounds                                                                  *)
(***************************************************************************)
\* frames the callback may have queued and vosk_listen not yet taken
MaxQueue == 2

\* frames the callback publishes in one run of the program
MaxFrames == 4

\* lines in one reply of the local backend
MaxLines == 3

(***************************************************************************)
(* Python values                                                           *)
(***************************************************************************)
None == <<>>

Some(v) == <<v>>

\* Python truthiness of an Optional[str]: None and "" are falsy
Truthy(opt) == opt # None /\ Len(opt[1]) > 0

LowerChar(c) ==
  CASE c = "S" -> "s"
    [] c = "T" -> "t"
    [] c = "O" -> "o"
    [] c = "P" -> "p"
    [] c = "H" -> "h"
    [] c = "E" -> "e"
    [] c = "L" -> "l"
    [] OTHER -> c

\* str.lower()
Lower(s) == [i \in DOMAIN s |-> LowerChar(s[i])]

\* the substring test `sub in s`
Contains(sub, s) ==
  /\ Len(sub) <= Len(s)
  /\ \E i \in 0..(Len(s) - Len(sub)) : SubSeq(s, i + 1, i + Len(sub)) = sub

WAKE_WORD == <<"h", "e", "l", "l", "o">>

STOP_WORD == <<"s", "t", "o", "p">>

IsStop_exact(t) == Lower(t) = STOP_WORD

\* "stop" in text.lower()
IsStop(t) == Contains(STOP_WORD, Lower(t))

IsWake_noLower(t) == Contains(WAKE_WORD, t)

\* WAKE_WORD in text.lower()
IsWake(t) == Contains(WAKE_WORD, Lower(t))

(***************************************************************************)
(* The utterances the user may speak.  The recognizer is an opaque library *)
(* (vosk): a frame either ends an utterance (AcceptWaveform returns true   *)
(* and Result() carries its text, possibly empty) or does not.             *)
(***************************************************************************)
U_hello == <<"h", "e", "l", "l", "o">>

U_Hello == <<"H", "e", "l", "l", "o">>

U_stop == <<"s", "t", "o", "p">>

U_Stop == <<"S", "t", "o", "p">>

U_hello_stop == <<"h", "e", "l", "l", "o", " ", "s", "t", "o", "p">>

U_two == <<"t", "w", "o">>

U_empty == <<>>

Utterances == {U_hello, U_Hello, U_stop, U_Stop, U_hello_stop, U_two, U_empty}

Frames == {[final |-> FALSE, text |-> U_empty]} \cup
          {[final |-> TRUE, text |-> u] : u \in Utterances}

\* rec.AcceptWaveform(data)
AcceptWaveform(data) == data.final

\* json.loads(rec.Result())["text"]
Result(data) == data.text

(***************************************************************************)
(* Outcome of a call that may raise                                        *)
(***************************************************************************)
Ret(v) == [raised |-> FALSE, value |-> v]

Raise == [raised |-> TRUE, value |-> ""]

(***************************************************************************)
(* The local backend                                                       *)
(***************************************************************************)
JsonLine(r) == [kind |-> "json", has_response |-> TRUE, response |-> r]

JsonLineNoField == [kind |-> "json", has_response |-> FALSE, response |-> ""]

EmptyLine == [kind |-> "empty", has_response |-> FALSE, response |-> ""]

BadLine == [kind |-> "bad", has_response |-> FALSE, response |-> ""]

\* what requests.post to the local endpoint may do
OllamaReplies ==
  { [failed |-> TRUE, lines |-> <<>>],
    [failed |-> FALSE, lines |-> <<JsonLine("Four"), JsonLine(".")>>],
    [failed |-> FALSE, lines |-> <<JsonLine("Four"), EmptyLine, JsonLineNoField>>],
    [failed |-> FALSE, lines |-> <<BadLine>>] }

\* the lines a reply of the local backend may be made of
LineKinds == {JsonLine("Four"), JsonLine("."), JsonLineNoField, EmptyLine, BadLine}

\* every reply of at most MaxLines lines
OllamaLineReplies ==
  { [failed |-> FALSE, lines |-> ls] :
      ls \in UNION { [1..k -> LineKinds] : k \in 0..MaxLines } }

RECURSIVE process_ollama_lines_prepend(_, _)
process_ollama_lines_prepend(lines, full_response) ==
  IF lines = <<>> THEN Ret(full_response)
  ELSE LET line == Head(lines) IN
       IF line.kind = "empty" THEN process_ollama_lines_prepend(Tail(lines), full_response)
       ELSE IF line.kind = "bad" THEN Raise
       ELSE process_ollama_lines_prepend(Tail(lines),
              (IF line.has_response THEN line.response ELSE "") \o full_response)

RECURSIVE process_ollama_lines(_, _)
\* the loop of process_ollama_response over response.iter_lines()
process_ollama_lines(lines, full_response) ==
  IF lines = <<>> THEN Ret(full_response)
  ELSE LET line == Head(lines) IN
       IF line.kind = "empty" THEN process_ollama_lines(Tail(lines), full_response)
       ELSE IF line.kind = "bad" THEN Raise
       ELSE process_ollama_lines(Tail(lines),
              full_response \o (IF line.has_response THEN line.response ELSE ""))

process_ollama_response(response) == process_ollama_lines(response.lines, "")

\* get_ollama_response: no exception of requests.post or json.loads is caught
get_ollama_response(reply) ==
  IF reply.failed THEN Raise ELSE process_ollama_response(reply)

(***************************************************************************)
(* The cloud backend                                                       *)
(***************************************************************************)
NoChoicesKey == [has_choices |-> FALSE, choices |-> <<>>]

Choices(cs) == [has_choices |-> TRUE, choices |-> cs]

Choice(c) == [has_message |-> TRUE, has_content |-> TRUE, content |-> c]

\* what requests.post to the cloud endpoint may do
OpenAIReplies ==
  { [failed |-> TRUE, status_code |-> 0, text |-> "connection refused", json |-> NoChoicesKey],
    [failed |-> FALSE, status_code |-> 200, text |-> "", json |-> Choices(<<Choice("4")>>)],
    [failed |-> FALSE, status_code |-> 200, text |-> "", json |-> NoChoicesKey],
    [failed |-> FALSE, status_code |-> 200, text |-> "", json |-> Choices(<<>>)],
    [failed |-> FALSE, status_code |-> 500, text |-> "server error", json |-> NoChoicesKey],
    [failed |-> FALSE, status_code |-> 404, text |-> "not found", json |-> NoChoicesKey] }

process_openai_response_bodyOnly(response) ==
  IF response.status_code = 200
  THEN IF ~response.json.has_choices THEN Ret("No response content.")
       ELSE IF response.json.choices = <<>> THEN Raise
       ELSE LET c == response.json.choices[1] IN
            IF c.has_message /\ c.has_content THEN Ret(c.content)
            ELSE Ret("No response content.")
  ELSE Ret(response.text)

process_openai_response(response) ==
  IF response.status_code = 200
  THEN IF ~response.json.has_choices THEN Ret("No response content.")
       ELSE IF response.json.choices = <<>> THEN Raise
       ELSE LET c == response.json.choices[1] IN
            IF c.has_message /\ c.has_content THEN Ret(c.content)
            ELSE Ret("No response content.")
  ELSE Ret("Error: " \o ToString(response.status_code) \o " - " \o response.text)

\* get_openai_response: only requests.exceptions.RequestException is caught
get_openai_response(reply) ==
  IF reply.failed THEN Ret("OpenAI API Request Failed: " \o reply.text)
  ELSE process_openai_response(reply)

\* no HTTP response received
NoReply == <<>>

IdleFuture == [state |-> "idle", prompt |-> None, result |-> ""]

(***************************************************************************)
(* Initial state: module globals after import, control thread about to     *)
(* enter continuous_chat_with_vosk                                         *)
(***************************************************************************)
Init ==
  /\ pc = "main_check"
  /\ vl_caller = "main"
  /\ q = <<>>
  /\ stop_flag = FALSE
  /\ tts_active = FALSE
  /\ recognized_text = None
  /\ text = None
  /\ command = None
  /\ ollama_future = IdleFuture
  /\ openai_future = IdleFuture
  /\ ollama_response = None
  /\ openai_response = None
  /\ speak_idx = 1
  /\ spoken = <<>>
  /\ speakers = 0
  /\ entries = 0
  /\ firstDone = "none"
  /\ stopSpokenIn = "none"
  /\ crash = "none"
  /\ ollama_reply = NoReply
  /\ openai_reply = NoReply
  /\ produced = 0
  /\ lastFed = 0
  /\ opened_at = 0
  /\ dispatches = 0

\* the sd.RawInputStream of vosk_listen is open: the callback runs
StreamOpen == pc = "vl_loop"

\* the state of the control state machine the control thread is in
ControlState ==
  IF pc \in {"done", "crashed"} THEN "Stopped"
  ELSE IF pc \in {"speak_set", "speak_synth", "speak_clear"} THEN "Speaking"
  ELSE IF pc \in {"rtt_submit_ollama", "rtt_submit_openai", "rtt_result_ollama",
                  "rtt_result_openai", "rtt_unwind"} THEN "Dispatching"
  ELSE IF pc \in {"lfc_check", "lfc_got", "hrt_command"} THEN "AwaitingCommand"
  ELSE IF pc \in {"vl_open", "vl_loop"} /\ vl_caller = "lfc" THEN "AwaitingCommand"
  ELSE "Idle"

\* a frame that carries the end of an utterance with the stop word in it
IsStopFrame(f) == f.final /\ IsStop(f.text)

(***************************************************************************)
(* The audio thread                                                        *)
(***************************************************************************)
\* q = queue.Queue(): maxsize 0, a queue without a bound
q_maxsize == 0

\* the frame as queued; seq is its position in the order of production
Stamp(indata, n) == [final |-> indata.final, text |-> indata.text, seq |-> n]

\* callback: q.put(bytes(indata)), while the input stream is open
callback(indata) ==
  /\ StreamOpen
  /\ q_maxsize = 0 \/ Len(q) < q_maxsize
  /\ Len(q) < MaxQueue
  /\ produced < MaxFrames
  /\ produced' = produced + 1
  /\ q' = Append(q, Stamp(indata, produced + 1))
  /\ stopSpokenIn' = IF stopSpokenIn = "none" /\ IsStopFrame(indata)
                     THEN ControlState ELSE stopSpokenIn
  /\ UNCHANGED <<pc, vl_caller, stop_flag, tts_active, recognized_text, text, command,
                 ollama_future, openai_future, ollama_response, openai_response,
                 speak_idx, spoken, speakers, entries, firstDone, crash>>
  /\ UNCHANGED <<ollama_reply, openai_reply, lastFed, opened_at, dispatches>>

\* the user says a stop utterance while respond_to_text or speak runs: no
\* input stream is open then, no callback runs and the audio is not captured
UnheardStop ==
  /\ ControlState \in {"Dispatching", "Speaking"}
  /\ stopSpokenIn = "none"
  /\ stopSpokenIn' = ControlState
  /\ UNCHANGED <<pc, vl_caller, q, stop_flag, tts_active, recognized_text, text, command,
                 ollama_future, openai_future, ollama_response, openai_response,
                 speak_idx, spoken, speakers, entries, firstDone, crash>>
  /\ UNCHANGED <<ollama_reply, openai_reply, produced, lastFed, opened_at, dispatches>>

(***************************************************************************)
(* The control thread                                                      *)
(***************************************************************************)

MainCheck_clears ==
  /\ pc = "main_check"
  /\ IF stop_flag
     THEN pc' = "done" /\ stop_flag' = FALSE /\ UNCHANGED vl_caller
     ELSE pc' = "vl_open" /\ vl_caller' = "main" /\ UNCHANGED stop_flag
  /\ UNCHANGED <<q, tts_active, recognized_text, text, command,
                 ollama_future, openai_future, ollama_response, openai_response,
                 speak_idx, spoken, speakers, entries, firstDone, stopSpokenIn, crash>>
  /\ UNCHANGED <<ollama_reply, openai_reply, produced, lastFed, opened_at, dispatches>>

\* continuous_chat_with_vosk: while not stop_flag.is_set(): vosk_listen(args)
MainCheck ==
  /\ pc = "main_check"
  /\ IF stop_flag
     THEN pc' = "done" /\ UNCHANGED vl_caller
     ELSE pc' = "vl_open" /\ vl_caller' = "main"
  /\ UNCHANGED <<q, stop_flag, tts_active, recognized_text, text, command,
                 ollama_future, openai_future, ollama_response, openai_response,
                 speak_idx, spoken, speakers, entries, firstDone, stopSpokenIn, crash>>
  /\ UNCHANGED <<ollama_reply, openai_reply, produced, lastFed, opened_at, dispatches>>

\* vosk_listen: open the input stream and make a fresh recognizer
VoskOpen ==
  /\ pc = "vl_open"
  /\ pc' = "vl_loop"
  /\ opened_at' = produced
  /\ UNCHANGED <<vl_caller, q, stop_flag, tts_active, recognized_text, text, command,
                 ollama_future, openai_future, ollama_response, openai_response,
                 speak_idx, spoken, speakers, entries, firstDone, stopSpokenIn, crash>>
  /\ UNCHANGED <<ollama_reply, openai_reply, produced, lastFed, dispatches>>

\* vosk_listen returns value v (the input stream closes) to its caller
VoskReturn(v) ==
  IF vl_caller = "main"
  THEN pc' = "main_got" /\ recognized_text' = v /\ UNCHANGED text
  ELSE pc' = "lfc_got" /\ text' = v /\ UNCHANGED recognized_text

VoskLoop_getFirst ==
  /\ pc = "vl_loop"
  /\ q # <<>>
  /\ q' = Tail(q)
  /\ lastFed' = Head(q).seq
  /\ LET data == Head(q) IN
     IF stop_flag
     THEN VoskReturn(None)
     ELSE IF AcceptWaveform(data) /\ Len(Result(data)) > 0
     THEN VoskReturn(Some(Result(data)))
     ELSE UNCHANGED <<pc, recognized_text, text>>
  /\ UNCHANGED <<vl_caller, stop_flag, tts_active, command,
                 ollama_future, openai_future, ollama_response, openai_response,
                 speak_idx, spoken, speakers, entries, firstDone, stopSpokenIn, crash>>
  /\ UNCHANGED <<ollama_reply, openai_reply, produced, opened_at, dispatches>>

VoskLoop_lifo ==
  /\ pc = "vl_loop"
  /\ IF stop_flag
     THEN VoskReturn(None) /\ UNCHANGED <<q, lastFed>>
     ELSE /\ q # <<>>
          /\ q' = SubSeq(q, 1, Len(q) - 1)
          /\ lastFed' = q[Len(q)].seq
          /\ LET data == q[Len(q)] IN
             IF AcceptWaveform(data) /\ Len(Result(data)) > 0
             THEN VoskReturn(Some(Result(data)))
             ELSE UNCHANGED <<pc, recognized_text, text>>
  /\ UNCHANGED <<vl_caller, stop_flag, tts_active, command,
                 ollama_future, openai_future, ollama_response, openai_response,
                 speak_idx, spoken, speakers, entries, firstDone, stopSpokenIn, crash>>
  /\ UNCHANGED <<ollama_reply, openai_reply, produced, opened_at, dispatches>>

\* vosk_listen: one iteration of while not stop_flag.is_set()
VoskLoop ==
  /\ pc = "vl_loop"
  /\ IF stop_flag
     THEN VoskReturn(None) /\ UNCHANGED <<q, lastFed>>
     ELSE /\ q # <<>>
          /\ q' = Tail(q)
          /\ lastFed' = Head(q).seq
          /\ LET data == Head(q) IN
             IF AcceptWaveform(data) /\ Len(Result(data)) > 0
             THEN VoskReturn(Some(Result(data)))
             ELSE UNCHANGED <<pc, recognized_text, text>>
  /\ UNCHANGED <<vl_caller, stop_flag, tts_active, command,
                 ollama_future, openai_future, ollama_response, openai_response,
                 speak_idx, spoken, speakers, entries, firstDone, stopSpokenIn, crash>>
  /\ UNCHANGED <<ollama_reply, openai_reply, produced, opened_at, dispatches>>

\* continuous_chat_with_vosk: if recognized_text: handle_recognized_text(...)
MainGot ==
  /\ pc = "main_got"
  /\ pc' = IF Truthy(recognized_text) THEN "hrt" ELSE "main_check"
  /\ entries' = 0
  /\ spoken' = <<>>
  /\ dispatches' = 0
  /\ UNCHANGED <<vl_caller, q, stop_flag, tts_active, recognized_text, text, command,
                 ollama_future, openai_future, ollama_response, openai_response,
                 speak_idx, speakers, firstDone, stopSpokenIn, crash>>
  /\ UNCHANGED <<ollama_reply, openai_reply, produced, lastFed, opened_at>>

HandleRecognizedText_wakeFirst ==
  /\ pc = "hrt"
  /\ IF IsWake(recognized_text[1])
     THEN pc' = "lfc_check" /\ entries' = entries + 1 /\ UNCHANGED stop_flag
     ELSE IF IsStop(recognized_text[1])
     THEN stop_flag' = TRUE /\ pc' = "main_check" /\ UNCHANGED entries
     ELSE pc' = "main_check" /\ UNCHANGED <<stop_flag, entries>>
  /\ UNCHANGED <<vl_caller, q, tts_active, recognized_text, text, command,
                 ollama_future, openai_future, ollama_response, openai_response,
                 speak_idx, spoken, speakers, firstDone, stopSpokenIn, crash>>
  /\ UNCHANGED <<ollama_reply, openai_reply, produced, lastFed, opened_at, dispatches>>

\* handle_recognized_text: the stop test, then the wake word test
HandleRecognizedText ==
  /\ pc = "hrt"
  /\ IF IsStop(recognized_text[1])
     THEN stop_flag' = TRUE /\ pc' = "main_check" /\ UNCHANGED entries
     ELSE IF IsWake(recognized_text[1])
     THEN pc' = "lfc_check" /\ entries' = entries + 1 /\ UNCHANGED stop_flag
     ELSE pc' = "main_check" /\ UNCHANGED <<stop_flag, entries>>
  /\ UNCHANGED <<vl_caller, q, tts_active, recognized_text, text, command,
                 ollama_future, openai_future, ollama_response, openai_response,
                 speak_idx, spoken, speakers, firstDone, stopSpokenIn, crash>>
  /\ UNCHANGED <<ollama_reply, openai_reply, produced, lastFed, opened_at, dispatches>>

\* listen_for_command: while not stop_flag.is_set(): text = vosk_listen(args)
ListenForCommandCheck ==
  /\ pc = "lfc_check"
  /\ IF stop_flag
     THEN pc' = "hrt_command" /\ command' = None /\ UNCHANGED vl_caller
     ELSE pc' = "vl_open" /\ vl_caller' = "lfc" /\ UNCHANGED command
  /\ UNCHANGED <<q, stop_flag, tts_active, recognized_text, text,
                 ollama_future, openai_future, ollama_response, openai_response,
                 speak_idx, spoken, speakers, entries, firstDone, stopSpokenIn, crash>>
  /\ UNCHANGED <<ollama_reply, openai_reply, produced, lastFed, opened_at, dispatches>>

ListenForCommandGot_ignoreTts ==
  /\ pc = "lfc_got"
  /\ IF Truthy(text)
     THEN IF IsStop(text[1])
          THEN stop_flag' = TRUE /\ pc' = "hrt_command" /\ command' = None
          ELSE pc' = "hrt_command" /\ command' = text /\ UNCHANGED stop_flag
     ELSE pc' = "lfc_check" /\ UNCHANGED <<stop_flag, command>>
  /\ UNCHANGED <<vl_caller, q, tts_active, recognized_text, text,
                 ollama_future, openai_future, ollama_response, openai_response,
                 speak_idx, spoken, speakers, entries, firstDone, stopSpokenIn, crash>>
  /\ UNCHANGED <<ollama_reply, openai_reply, produced, lastFed, opened_at, dispatches>>

\* listen_for_command: the body of the loop after vosk_listen returned
ListenForCommandGot ==
  /\ pc = "lfc_got"
  /\ IF Truthy(text)
     THEN IF IsStop(text[1])
          THEN stop_flag' = TRUE /\ pc' = "hrt_command" /\ command' = None
          ELSE IF ~tts_active
          THEN pc' = "hrt_command" /\ command' = text /\ UNCHANGED stop_flag
          ELSE pc' = "lfc_check" /\ UNCHANGED <<stop_flag, command>>
     ELSE pc' = "lfc_check" /\ UNCHANGED <<stop_flag, command>>
  /\ UNCHANGED <<vl_caller, q, tts_active, recognized_text, text,
                 ollama_future, openai_future, ollama_response, openai_response,
                 speak_idx, spoken, speakers, entries, firstDone, stopSpokenIn, crash>>
  /\ UNCHANGED <<ollama_reply, openai_reply, produced, lastFed, opened_at, dispatches>>

\* handle_recognized_text: if command: respond_to_text(command)
HandleCommand ==
  /\ pc = "hrt_command"
  /\ pc' = IF Truthy(command) THEN "rtt_submit_ollama" ELSE "main_check"
  /\ dispatches' = IF Truthy(command) THEN dispatches + 1 ELSE dispatches
  /\ UNCHANGED <<vl_caller, q, stop_flag, tts_active, recognized_text, text, command,
                 ollama_future, openai_future, ollama_response, openai_response,
                 speak_idx, spoken, speakers, entries, firstDone, stopSpokenIn, crash>>
  /\ UNCHANGED <<ollama_reply, openai_reply, produced, lastFed, opened_at>>

(***************************************************************************)
(* respond_to_text and the two executor workers                            *)
(***************************************************************************)
\* respond_to_text: ollama_future = executor.submit(get_ollama_response, text)
SubmitOllama ==
  /\ pc = "rtt_submit_ollama"
  /\ ollama_future' = [state |-> "running", prompt |-> command, result |-> ""]
  /\ pc' = "rtt_submit_openai"
  /\ spoken' = <<>>
  /\ firstDone' = "none"
  /\ UNCHANGED <<vl_caller, q, stop_flag, tts_active, recognized_text, text, command,
                 openai_future, ollama_response, openai_response,
                 speak_idx, speakers, entries, stopSpokenIn, crash>>
  /\ UNCHANGED <<ollama_reply, openai_reply, produced, lastFed, opened_at, dispatches>>

SubmitOpenAI_wakeText ==
  /\ pc = "rtt_submit_openai"
  /\ openai_future' = [state |-> "running", prompt |-> recognized_text, result |-> ""]
  /\ pc' = "rtt_result_ollama"
  /\ UNCHANGED <<vl_caller, q, stop_flag, tts_active, recognized_text, text, command,
                 ollama_future, ollama_response, openai_response,
                 speak_idx, spoken, speakers, entries, firstDone, stopSpokenIn, crash>>
  /\ UNCHANGED <<ollama_reply, openai_reply, produced, lastFed, opened_at, dispatches>>

\* respond_to_text: openai_future = executor.submit(get_openai_response, text)
SubmitOpenAI ==
  /\ pc = "rtt_submit_openai"
  /\ openai_future' = [state |-> "running", prompt |-> command, result |-> ""]
  /\ pc' = "rtt_result_ollama"
  /\ UNCHANGED <<vl_caller, q, stop_flag, tts_active, recognized_text, text, command,
                 ollama_future, ollama_response, openai_response,
                 speak_idx, spoken, speakers, entries, firstDone, stopSpokenIn, crash>>
  /\ UNCHANGED <<ollama_reply, openai_reply, produced, lastFed, opened_at, dispatches>>

\* a future settles with the outcome of its call
Settle(future, outcome) ==
  [future EXCEPT !.state = IF outcome.raised THEN "raised" ELSE "done",
                 !.result = outcome.value]

\* the worker thread that runs get_ollama_response(text)
OllamaWorker(reply) ==
  /\ ollama_future.state = "running"
  /\ ollama_reply' = reply
  /\ ollama_future' = Settle(ollama_future, get_ollama_response(reply))
  /\ firstDone' = IF firstDone = "none" THEN "ollama" ELSE firstDone
  /\ UNCHANGED <<pc, vl_caller, q, stop_flag, tts_active, recognized_text, text, command,
                 openai_future, ollama_response, openai_response,
                 speak_idx, spoken, speakers, entries, stopSpokenIn, crash>>
  /\ UNCHANGED <<openai_reply, produced, lastFed, opened_at, dispatches>>

\* the worker thread that runs get_openai_response(text)
OpenAIWorker(reply) ==
  /\ openai_future.state = "running"
  /\ openai_reply' = reply
  /\ openai_future' = Settle(openai_future, get_openai_response(reply))
  /\ firstDone' = IF firstDone = "none" THEN "openai" ELSE firstDone
  /\ UNCHANGED <<pc, vl_caller, q, stop_flag, tts_active, recognized_text, text, command,
                 ollama_future, ollama_response, openai_response,
                 speak_idx, spoken, speakers, entries, stopSpokenIn, crash>>
  /\ UNCHANGED <<ollama_reply, produced, lastFed, opened_at, dispatches>>

ResultOllama_speakEarly ==
  /\ pc = "rtt_result_ollama"
  /\ ollama_future.state \in {"done", "raised"}
  /\ IF ollama_future.state = "raised"
     THEN pc' = "rtt_unwind" /\ UNCHANGED ollama_response
     ELSE pc' = "speak_set" /\ ollama_response' = Some(ollama_future.result)
  /\ UNCHANGED <<vl_caller, q, stop_flag, tts_active, recognized_text, text, command,
                 ollama_future, openai_future, openai_response,
                 speak_idx, spoken, speakers, entries, firstDone, stopSpokenIn, crash>>
  /\ UNCHANGED <<ollama_reply, openai_reply, produced, lastFed, opened_at, dispatches>>

\* respond_to_text: ollama_response = ollama_future.result()
ResultOllama ==
  /\ pc = "rtt_result_ollama"
  /\ ollama_future.state \in {"done", "raised"}
  /\ IF ollama_future.state = "raised"
     THEN pc' = "rtt_unwind" /\ UNCHANGED ollama_response
     ELSE pc' = "rtt_result_openai" /\ ollama_response' = Some(ollama_future.result)
  /\ UNCHANGED <<vl_caller, q, stop_flag, tts_active, recognized_text, text, command,
                 ollama_future, openai_future, openai_response,
                 speak_idx, spoken, speakers, entries, firstDone, stopSpokenIn, crash>>
  /\ UNCHANGED <<ollama_reply, openai_reply, produced, lastFed, opened_at, dispatches>>

ResultOpenAI_noWait ==
  /\ pc = "rtt_result_openai"
  /\ IF openai_future.state = "raised"
     THEN pc' = "rtt_unwind" /\ UNCHANGED <<openai_response, speak_idx>>
     ELSE pc' = "speak_set" /\ openai_response' = Some(openai_future.result)
          /\ speak_idx' = 1
  /\ UNCHANGED <<vl_caller, q, stop_flag, tts_active, recognized_text, text, command,
                 ollama_future, openai_future, ollama_response,
                 spoken, speakers, entries, firstDone, stopSpokenIn, crash>>
  /\ UNCHANGED <<ollama_reply, openai_reply, produced, lastFed, opened_at, dispatches>>

\* respond_to_text: openai_response = openai_future.result()
ResultOpenAI ==
  /\ pc = "rtt_result_openai"
  /\ openai_future.state \in {"done", "raised"}
  /\ IF openai_future.state = "raised"
     THEN pc' = "rtt_unwind" /\ UNCHANGED <<openai_response, speak_idx>>
     ELSE pc' = "speak_set" /\ openai_response' = Some(openai_future.result)
          /\ speak_idx' = 1
  /\ UNCHANGED <<vl_caller, q, stop_flag, tts_active, recognized_text, text, command,
                 ollama_future, openai_future, ollama_response,
                 spoken, speakers, entries, firstDone, stopSpokenIn, crash>>
  /\ UNCHANGED <<ollama_reply, openai_reply, produced, lastFed, opened_at, dispatches>>

\* a result() call raised: the with block waits for both workers, then the
\* exception leaves respond_to_text, handle_recognized_text and the main loop
Unwind ==
  /\ pc = "rtt_unwind"
  /\ ollama_future.state # "running"
  /\ openai_future.state # "running"
  /\ pc' = "crashed"
  /\ crash' = "backend"
  /\ UNCHANGED <<vl_caller, q, stop_flag, tts_active, recognized_text, text, command,
                 ollama_future, openai_future, ollama_response, openai_response,
                 speak_idx, spoken, speakers, entries, firstDone, stopSpokenIn>>
  /\ UNCHANGED <<ollama_reply, openai_reply, produced, lastFed, opened_at, dispatches>>

(***************************************************************************)
(* speak                                                                   *)
(***************************************************************************)
SpeakArgs_swapped(ollama, openai) ==
  << [who |-> "openai", text |-> openai], [who |-> "ollama", text |-> ollama] >>

\* respond_to_text: speak(ollama_response); speak(openai_response)
SpeakArgs(ollama, openai) ==
  << [who |-> "ollama", text |-> ollama], [who |-> "openai", text |-> openai] >>

\* speak: tts_active.set()
SpeakSet ==
  /\ pc = "speak_set"
  /\ tts_active' = TRUE
  /\ speakers' = speakers + 1
  /\ spoken' = Append(spoken, SpeakArgs(ollama_response, openai_response)[speak_idx])
  /\ pc' = "speak_synth"
  /\ UNCHANGED <<vl_caller, q, stop_flag, recognized_text, text, command,
                 ollama_future, openai_future, ollama_response, openai_response,
                 speak_idx, entries, firstDone, stopSpokenIn, crash>>
  /\ UNCHANGED <<ollama_reply, openai_reply, produced, lastFed, opened_at, dispatches>>

\* speak: engine.setProperty x3, engine.say, engine.runAndWait; any of them
\* may raise, and nothing up to the top of the program catches it
SpeakSynth(ok) ==
  /\ pc = "speak_synth"
  /\ IF ok
     THEN pc' = "speak_clear" /\ UNCHANGED <<speakers, crash>>
     ELSE pc' = "crashed" /\ crash' = "engine" /\ speakers' = speakers - 1
  /\ UNCHANGED <<vl_caller, q, stop_flag, tts_active, recognized_text, text, command,
                 ollama_future, openai_future, ollama_response, openai_response,
                 speak_idx, spoken, entries, firstDone, stopSpokenIn>>
  /\ UNCHANGED <<ollama_reply, openai_reply, produced, lastFed, opened_at, dispatches>>

SpeakClear_again ==
  /\ pc = "speak_clear"
  /\ tts_active' = FALSE
  /\ speakers' = speakers - 1
  /\ IF speak_idx = 1
     THEN /\ speak_idx' = 2
          /\ pc' = "speak_set"
          /\ UNCHANGED <<text, command, ollama_future, openai_future,
                         ollama_response, openai_response, ollama_reply, openai_reply>>
     ELSE /\ speak_idx' = 1
          /\ pc' = "lfc_check"
          /\ text' = None
          /\ command' = None
          /\ ollama_future' = IdleFuture
          /\ openai_future' = IdleFuture
          /\ ollama_response' = None
          /\ openai_response' = None
          /\ ollama_reply' = NoReply
          /\ openai_reply' = NoReply
  /\ UNCHANGED <<vl_caller, q, stop_flag, recognized_text,
                 spoken, entries, firstDone, stopSpokenIn, crash>>
  /\ UNCHANGED <<produced, lastFed, opened_at, dispatches>>

SpeakClear_noClear ==
  /\ pc = "speak_clear"
  /\ UNCHANGED tts_active
  /\ speakers' = speakers - 1
  /\ IF speak_idx = 1
     THEN /\ speak_idx' = 2
          /\ pc' = "speak_set"
          /\ UNCHANGED <<text, command, ollama_future, openai_future,
                         ollama_response, openai_response, ollama_reply, openai_reply>>
     ELSE /\ speak_idx' = 1
          /\ pc' = "main_check"
          /\ text' = None
          /\ command' = None
          /\ ollama_future' = IdleFuture
          /\ openai_future' = IdleFuture
          /\ ollama_response' = None
          /\ openai_response' = None
          /\ ollama_reply' = NoReply
          /\ openai_reply' = NoReply
  /\ UNCHANGED <<vl_caller, q, stop_flag, recognized_text,
                 spoken, entries, firstDone, stopSpokenIn, crash>>
  /\ UNCHANGED <<produced, lastFed, opened_at, dispatches>>

\* speak: tts_active.clear(), and the return to the caller; after the second
\* speak respond_to_text and handle_recognized_text return to the main loop
SpeakClear ==
  /\ pc = "speak_clear"
  /\ tts_active' = FALSE
  /\ speakers' = speakers - 1
  /\ IF speak_idx = 1
     THEN /\ speak_idx' = 2
          /\ pc' = "speak_set"
          /\ UNCHANGED <<text, command, ollama_future, openai_future,
                         ollama_response, openai_response, ollama_reply, openai_reply>>
     ELSE /\ speak_idx' = 1
          /\ pc' = "main_check"
          /\ text' = None
          /\ command' = None
          /\ ollama_future' = IdleFuture
          /\ openai_future' = IdleFuture
          /\ ollama_response' = None
          /\ openai_response' = None
          /\ ollama_reply' = NoReply
          /\ openai_reply' = NoReply
  /\ UNCHANGED <<vl_caller, q, stop_flag, recognized_text,
                 spoken, entries, firstDone, stopSpokenIn, crash>>
  /\ UNCHANGED <<produced, lastFed, opened_at, dispatches>>

Next ==
  \/ \E indata \in Frames : callback(indata)
  \/ UnheardStop
  \/ MainCheck
  \/ VoskOpen
  \/ VoskLoop
  \/ MainGot
  \/ HandleRecognizedText
  \/ ListenForCommandCheck
  \/ ListenForCommandGot
  \/ HandleCommand
  \/ SubmitOllama
  \/ SubmitOpenAI
  \/ \E reply \in OllamaReplies : OllamaWorker(reply)
  \/ \E reply \in OpenAIReplies : OpenAIWorker(reply)
  \/ ResultOllama
  \/ ResultOpenAI
  \/ Unwind
  \/ \E ok \in BOOLEAN : SpeakSynth(ok)
  \/ SpeakSet
  \/ SpeakClear

Spec == Init /\ [][Next]_vars

(***************************************************************************)
(* listen_for_command on its own: entered after a wake word, with either   *)
(* value of the tts_active event                                           *)
(***************************************************************************)
InitCommand ==
  /\ pc = "lfc_check"
  /\ vl_caller = "main"
  /\ q = <<>>
  /\ stop_flag = FALSE
  /\ tts_active \in BOOLEAN
  /\ recognized_text = Some(U_hello)
  /\ text = None
  /\ command = None
  /\ ollama_future = IdleFuture
  /\ openai_future = IdleFuture
  /\ ollama_response = None
  /\ openai_response = None
  /\ speak_idx = 1
  /\ spoken = <<>>
  /\ speakers = 0
  /\ entries = 1
  /\ firstDone = "none"
  /\ stopSpokenIn = "none"
  /\ crash = "none"
  /\ ollama_reply = NoReply
  /\ openai_reply = NoReply
  /\ produced = 0
  /\ lastFed = 0
  /\ opened_at = 0
  /\ dispatches = 0

SpecCommand == InitCommand /\ [][Next]_vars

(***************************************************************************)
(* Properties                                                              *)
(***************************************************************************)
StopPattern == << {"s", "S"}, {"t", "T"}, {"o", "O"}, {"p", "P"} >>

WakePattern == << {"h", "H"}, {"e", "E"}, {"l", "L"}, {"l", "L"}, {"o", "O"} >>

\* the word, in any mix of cases, occurs somewhere in the optional text
Says(pattern, opt) ==
  /\ opt # None
  /\ Len(pattern) <= Len(opt[1])
  /\ \E i \in 0..(Len(opt[1]) - Len(pattern)) :
       \A j \in 1..Len(pattern) : opt[1][i + j] \in pattern[j]

\* handle_recognized_text has made its decision about recognized_text
HandledInIdle == recognized_text # None /\ pc \notin {"main_got", "hrt"}

\* listen_for_command has made its decision about text
HandledInCapture == text # None /\ pc # "lfc_got"

StartsCycle ==
  \/ pc' = "vl_open" /\ pc # "vl_open"
  \/ pc' = "rtt_submit_ollama" /\ pc # "rtt_submit_ollama"
  \/ pc' = "speak_set" /\ pc # "speak_set"

\* C1: an utterance that contains "stop" in any case, once processed in Idle
\* or during command capture, has set stop_flag; and while stop_flag is set no
\* vosk_listen call, no respond_to_text dispatch and no speak call starts.
C1_StopEndsCycles ==
  /\ [](HandledInIdle /\ Says(StopPattern, recognized_text) => stop_flag)
  /\ [](HandledInCapture /\ Says(StopPattern, text) => stop_flag)
  /\ [][stop_flag => ~StartsCycle]_vars

C1_Witness ==
  /\ pc = "done"
  /\ stop_flag
  /\ recognized_text = Some(U_Hello)
  /\ text = Some(U_Stop)

\* C2: respond_to_text delivers a result for both backends and no backend
\* failure is left as a raised future or leaves the dispatch as an exception.
C2_Original ==
  /\ ollama_future.state # "raised"
  /\ openai_future.state # "raised"
  /\ crash # "backend"
  /\ (/\ ollama_future.state = "done"
      /\ openai_future.state = "done"
      /\ pc \notin {"rtt_result_ollama", "rtt_result_openai"})
     => (ollama_response # None /\ openai_response # None)

\* C3: tts_active is false whenever no speak() call is in progress, before a
\* call and after any exit from it, the exit by an exception included.
C3_Original == pc \notin {"speak_synth", "speak_clear"} => ~tts_active

StopPending == \E i \in DOMAIN q : IsStopFrame(q[i])

\* C4: once a stop utterance has been spoken, in whichever control state,
\* the main loop does not come round to its test again with stop_flag unset
\* (an utterance still waiting in the queue has not been processed yet).
C4_Original ==
  (stopSpokenIn # "none" /\ pc = "main_check" /\ ~StopPending) => stop_flag

\* the part of C4 that the code does satisfy: stop utterances spoken while
\* a listen is in progress
C4_HeardPart ==
  (stopSpokenIn \in {"Idle", "AwaitingCommand"} /\ pc = "main_check" /\ ~StopPending)
    => stop_flag

\* C5: in every dispatch the Ollama result is spoken first and the OpenAI
\* result second, whichever backend call settled first.
C5_OllamaSpokenFirst ==
  /\ Len(spoken) <= 2
  /\ Len(spoken) >= 1 => spoken[1].who = "ollama"
  /\ Len(spoken) = 2 => spoken[2].who = "openai"
  /\ (pc \in {"speak_synth", "speak_clear"} /\ Len(spoken) >= 1)
       => spoken[1].text = Some(ollama_future.result)
  /\ (pc \in {"speak_synth", "speak_clear"} /\ Len(spoken) = 2)
       => spoken[2].text = Some(openai_future.result)

C5_Witness ==
  /\ firstDone = "openai"
  /\ Len(spoken) = 2
  /\ pc = "main_check"

\* C6: in listen_for_command, an utterance without the stop word that is
\* recognized while tts_active is set is discarded: the loop goes back to
\* listen and no command is returned for dispatch.
C6_BusyDiscards ==
  [][(pc = "lfc_got" /\ tts_active /\ Truthy(text) /\ ~Says(StopPattern, text))
       => (pc' \in {"lfc_got", "lfc_check"} /\ command' = None
           /\ ollama_future' = IdleFuture /\ openai_future' = IdleFuture)]_vars

C6_Witness ==
  /\ tts_active
  /\ pc = "lfc_check"
  /\ text = Some(U_two)
  /\ command = None

\* C7: a dispatch never aborts the session on a backend failure, and when
\* the control loop is back at its test after a dispatch two speak calls
\* have been made.
C7_Original ==
  /\ crash # "backend"
  /\ (pc = "main_check" /\ entries = 1 /\ ~stop_flag) => Len(spoken) = 2

\* C8: once handle_recognized_text has decided about an utterance that has
\* the wake word and not the stop word, listen_for_command has been entered
\* exactly once for it.
C8_WakeEntersOnce ==
  (/\ HandledInIdle
   /\ Says(WakePattern, recognized_text)
   /\ ~Says(StopPattern, recognized_text))
    => entries = 1

C8_Witness ==
  /\ recognized_text = Some(U_Hello)
  /\ entries = 1
  /\ Len(spoken) = 2
  /\ pc = "main_check"

\* C9: an utterance with both the stop word and the wake word, processed in
\* Idle, sets stop_flag and leads to no command capture, dispatch or speech.
C9_StopWins ==
  (/\ HandledInIdle
   /\ Says(WakePattern, recognized_text)
   /\ Says(StopPattern, recognized_text))
    => (stop_flag /\ entries = 0 /\ spoken = <<>> /\ pc \in {"main_check", "done"})

C9_Witness ==
  /\ pc = "done"
  /\ recognized_text = Some(U_hello_stop)

\* C10: at most one speak() call is in progress, and none while a backend
\* call of the dispatch is still running.
C10_OneSpeaker ==
  /\ speakers <= 1
  /\ speakers > 0 => (/\ ollama_future.state \in {"done", "raised"}
                      /\ openai_future.state \in {"done", "raised"})

C10_Witness ==
  /\ speakers = 1
  /\ speak_idx = 2
  /\ pc = "speak_synth"

(***************************************************************************)
(* vosk_listen on its own: called with either value of the stop_flag event *)
(***************************************************************************)
InitListen ==
  /\ pc = "vl_open"
  /\ vl_caller \in {"main", "lfc"}
  /\ q = <<>>
  /\ stop_flag \in BOOLEAN
  /\ tts_active = FALSE
  /\ recognized_text = IF vl_caller = "lfc" THEN Some(U_hello) ELSE None
  /\ text = None
  /\ command = None
  /\ ollama_future = IdleFuture
  /\ openai_future = IdleFuture
  /\ ollama_response = None
  /\ openai_response = None
  /\ speak_idx = 1
  /\ spoken = <<>>
  /\ speakers = 0
  /\ entries = IF vl_caller = "lfc" THEN 1 ELSE 0
  /\ firstDone = "none"
  /\ stopSpokenIn = "none"
  /\ crash = "none"
  /\ ollama_reply = NoReply
  /\ openai_reply = NoReply
  /\ produced = 0
  /\ lastFed = 0
  /\ opened_at = 0
  /\ dispatches = 0

SpecListen == InitListen /\ [][Next]_vars

(***************************************************************************)
(* get_ollama_response on its own: the worker of a dispatch receives any   *)
(* reply of at most MaxLines lines                                         *)
(***************************************************************************)
InitOllama ==
  /\ pc = "rtt_result_ollama"
  /\ vl_caller = "lfc"
  /\ q = <<>>
  /\ stop_flag = FALSE
  /\ tts_active = FALSE
  /\ recognized_text = Some(U_hello)
  /\ text = Some(U_two)
  /\ command = Some(U_two)
  /\ ollama_future = [state |-> "running", prompt |-> Some(U_two), result |-> ""]
  /\ openai_future = [state |-> "running", prompt |-> Some(U_two), result |-> ""]
  /\ ollama_response = None
  /\ openai_response = None
  /\ speak_idx = 1
  /\ spoken = <<>>
  /\ speakers = 0
  /\ entries = 1
  /\ firstDone = "none"
  /\ stopSpokenIn = "none"
  /\ crash = "none"
  /\ ollama_reply = NoReply
  /\ openai_reply = NoReply
  /\ produced = 2
  /\ lastFed = 2
  /\ opened_at = 1
  /\ dispatches = 1

NextOllama == \E reply \in OllamaLineReplies : OllamaWorker(reply)

SpecOllama == InitOllama /\ [][NextOllama]_vars

\* C11: in every dispatch the first speak() begins only after both backend
\* calls have returned: while a speak call is about to run or running, both
\* futures are done and both results have been taken.
C11_SpeakAfterBothSettle ==
  /\ spoken # <<>> => (ollama_future.state # "running" /\ openai_future.state # "running")
  /\ pc \in {"speak_set", "speak_synth", "speak_clear"}
       => (/\ ollama_future.state = "done"
           /\ openai_future.state = "done"
           /\ ollama_response = Some(ollama_future.result)
           /\ openai_response = Some(openai_future.result))

C11_Witness ==
  /\ pc = "speak_set"
  /\ speak_idx = 1
  /\ firstDone = "ollama"
  /\ ollama_future.state = "done"
  /\ openai_future.state = "done"

\* C12: with stop_flag set, vosk_listen can always take its next step, an
\* empty queue included, and that step returns None to the caller without
\* taking a frame.
C12_StopReturnsFromListen ==
  /\ []((pc = "vl_loop" /\ stop_flag) => ENABLED VoskLoop)
  /\ [][(pc = "vl_loop" /\ stop_flag /\ pc' # pc)
          => (/\ q' = q
              /\ pc' = IF vl_caller = "main" THEN "main_got" ELSE "lfc_got"
              /\ vl_caller = "main" => recognized_text' = None
              /\ vl_caller = "lfc" => text' = None)]_vars

C12_Witness ==
  /\ pc = "main_got"
  /\ stop_flag
  /\ recognized_text = None
  /\ q = <<>>
  /\ produced = 0

\* C13: once stop_flag is set it stays set: no step of the program clears it.
C13_StopMonotonic == [][stop_flag => stop_flag']_vars

C13_Witness ==
  /\ pc = "done"
  /\ stop_flag
  /\ text = Some(U_stop)

\* C14: the utterance that listen_for_command accepts after the wake word (no
\* stop word, tts_active clear) is returned as the command, and the prompt
\* of both backend calls is that utterance's text, unchanged.
C14_CommandIsUtterance ==
  /\ [][(pc = "lfc_got" /\ ~tts_active /\ Truthy(text) /\ ~Says(StopPattern, text)
          /\ pc' # pc)
          => (pc' = "hrt_command" /\ command' = text)]_vars
  /\ [][(pc = "hrt_command" /\ Truthy(command) /\ pc' # pc)
          => pc' = "rtt_submit_ollama"]_vars
  /\ [](ollama_future.state # "idle" => ollama_future.prompt = text)
  /\ [](openai_future.state # "idle" => openai_future.prompt = text)

C14_Witness ==
  /\ recognized_text = Some(U_hello)
  /\ text = Some(U_two)
  /\ ollama_future.state = "running"
  /\ openai_future.state = "running"
  /\ ollama_future.prompt = Some(U_two)
  /\ openai_future.prompt = Some(U_two)

\* the fragment a line contributes to the answer
Fragment(line) == IF line.kind = "json" /\ line.has_response THEN line.response ELSE ""

RECURSIVE ConcatFrom(_, _)
\* the fragments of lines i, i+1, ... joined in line order
ConcatFrom(lines, i) ==
  IF i > Len(lines) THEN "" ELSE Fragment(lines[i]) \o ConcatFrom(lines, i + 1)

AllJson(lines) == \A i \in DOMAIN lines : lines[i].kind # "bad"

\* C15: for every reply whose non-empty lines are all JSON, the result of
\* process_ollama_response is the response fragments of the lines joined in
\* line order, a line without the field contributing nothing.
C15_ConcatInOrder ==
  (ollama_future.state # "running" /\ AllJson(ollama_reply.lines))
    => (/\ ollama_future.state = "done"
        /\ ollama_future.result = ConcatFrom(ollama_reply.lines, 1))

C15_Witness ==
  /\ ollama_future.state = "done"
  /\ ollama_reply.lines = <<JsonLine("Four"), JsonLine(".")>>
  /\ ollama_future.result = "Four."

\* the cloud backend answered, with a status other than 200
CloudError ==
  /\ openai_future.state \in {"done", "raised"}
  /\ ~openai_reply.failed
  /\ openai_reply.status_code # 200

\* the error value of the two non-200 answers, written out
ErrorValue ==
  IF openai_reply.status_code = 500 /\ openai_reply.text = "server error"
  THEN "Error: 500 - server error"
  ELSE IF openai_reply.status_code = 404 /\ openai_reply.text = "not found"
  THEN "Error: 404 - not found"
  ELSE "?"

\* C16: when the cloud backend answers with a non-200 status S and body B the
\* cloud result is "Error: S - B", and the second speak() call of the
\* dispatch speaks that value.
C16_CloudErrorSpoken ==
  CloudError
    => (/\ openai_future.state = "done"
        /\ openai_future.result = ErrorValue
        /\ (pc \in {"speak_synth", "speak_clear"} /\ Len(spoken) = 2)
             => spoken[2].text = Some(ErrorValue))

C16_Witness ==
  /\ pc = "speak_synth"
  /\ speak_idx = 2
  /\ openai_reply.status_code = 500
  /\ spoken[2] = [who |-> "openai", text |-> Some("Error: 500 - server error")]

\* C17: the frames published and not yet consumed stay below a fixed bound:
\* here, below the number of frames the callback is let to run ahead of
\* vosk_listen.
C17_Original == Len(q) < MaxQueue

\* C18: frames reach AcceptWaveform in the order of their production: the
\* queue holds them in increasing sequence order, every queued frame is
\* younger than the last one delivered, and delivery never goes back, from
\* one vosk_listen call to the next included.
C18_FramesInOrder ==
  /\ [](\A i, j \in DOMAIN q : i < j => q[i].seq < q[j].seq)
  /\ [](q # <<>> => lastFed < q[1].seq)
  /\ [][lastFed' # lastFed => lastFed' > lastFed]_vars

C18_Witness ==
  /\ pc = "lfc_got"
  /\ lastFed = 2
  /\ lastFed <= opened_at

\* C19: a dispatch happens only for an utterance with the wake word handled
\* in Idle, at most once for it, and when its second speak() returns the
\* control thread is back at the test of the main loop.
C19_OneDispatchPerWake ==
  /\ [](dispatches <= 1 /\ dispatches <= entries)
  /\ [](ControlState \in {"Dispatching", "Speaking"}
          => (dispatches = 1 /\ HandledInIdle /\ Says(WakePattern, recognized_text)))
  /\ [][(pc = "speak_clear" /\ speak_idx = 2 /\ pc' # pc) => pc' = "main_check"]_vars

C19_Witness ==
  /\ pc = "main_check"
  /\ recognized_text = Some(U_hello)
  /\ dispatches = 1
  /\ entries = 1
  /\ Len(spoken) = 2
  /\ produced = 2

\* C20: tts_active is clear whenever listen_for_command runs, so its
\* "TTS active, waiting..." branch is never taken; the flag is set only
\* inside a speak() call, or after a speak() call that raised.
C20_BusyBranchUnreachable ==
  /\ ControlState = "AwaitingCommand" => ~tts_active
  /\ (tts_active /\ crash = "none") => pc \in {"speak_synth", "speak_clear"}

C20_Witness ==
  /\ pc = "lfc_got"
  /\ ~tts_active
  /\ firstDone # "none"
  /\ Truthy(text)

====
